---- MODULE Spec2Model ----
(***************************************************************************)
(* Model of keras_text_summarization/library/rnn.py: the three seq2seq     *)
(* summarizer classes OneShotRNN, RecursiveRNN1 and RecursiveRNN2, their   *)
(* text-to-index transformations, batch generators, fit and summarize.     *)
(*                                                                         *)
(* A Python str is a sequence of one-character strings; a word is such a   *)
(* sequence too.  A numpy array is the nested sequence of its entries.     *)
(***************************************************************************)
EXTENDS Integers, Sequences, FiniteSets, TLC

\* ---------------------------------------------------------------- bounds
\* Longest text, in characters.
MaxTextLen == 3
\* Largest max_input_seq_length / max_target_seq_length of a config.
MaxSeqLen == 3
\* Largest score the network gives a token (scores are 0..MaxScore).
MaxScore == 1
\* Most full batches a sample list holds.
MaxBatches == 2
\* Most batches a caller draws from a generator it drives itself.
MaxYields == 5
\* Largest epochs argument given to fit.
MaxEpochs == 2

\* ------------------------------------------------------ module constants
BATCH_SIZE == 64
EPOCHS == 10

\* The three classes, by their model_name.
OneShotRNN == "one-shot-rnn"
RecursiveRNN1 == "recursive-rnn-1"
RecursiveRNN2 == "recursive-rnn-2"
Variants == {OneShotRNN, RecursiveRNN1, RecursiveRNN2}

\* ---------------------------------------------------------------- strings
\* The characters texts are written in.
Chars == {"E", "N", "D", " "}

\* str.lower(), one character.
LowerChar(c) ==
    CASE c = "E" -> "e"
      [] c = "N" -> "n"
      [] c = "D" -> "d"
      [] c = "S" -> "s"
      [] c = "T" -> "t"
      [] c = "A" -> "a"
      [] c = "R" -> "r"
      [] OTHER -> c

\* str.lower()
Lower(s) == [i \in 1..Len(s) |-> LowerChar(s[i])]

\* The position of the first ' ' of s, 0 when there is none.
RECURSIVE FindSpace(_, _)
FindSpace(s, i) ==
    IF i > Len(s) THEN 0
    ELSE IF s[i] = " " THEN i
    ELSE FindSpace(s, i + 1)

\* str.split(' '): one piece more than there are spaces, empty pieces kept.
RECURSIVE Split(_)
Split(s) ==
    LET i == FindSpace(s, 1) IN
    IF i = 0 THEN <<s>>
    ELSE <<SubSeq(s, 1, i - 1)>> \o Split(SubSeq(s, i + 1, Len(s)))

\* The literals of the source.
START == <<"S", "T", "A", "R", "T">>
END == <<"E", "N", "D">>
START_ == START \o <<" ">>
_END == <<" ">> \o END

\* All texts of at most MaxTextLen characters.
RECURSIVE TextsOfLen(_)
TextsOfLen(n) ==
    IF n = 0 THEN {<<>>}
    ELSE {Append(t, c) : t \in TextsOfLen(n - 1), c \in Chars}
Texts == UNION {TextsOfLen(n) : n \in 0..MaxTextLen}

\* ----------------------------------------------------------------- config
\* The vocabularies of a config: word -> index, 0 and 1 being PAD/UNK on the
\* input side and 0 being UNK on the target side.
input_word2idx_of == (<<"e">> :> 2) @@ (<<"e", "n">> :> 3) @@ (<<"e", "n", "d">> :> 4)
target_word2idx_of ==
    (START :> 1) @@ (END :> 2) @@ (<<"e">> :> 3) @@ (<<"e", "n">> :> 4)
target_idx2word_of ==
    (0 :> <<"U", "N", "K">>) @@ (1 :> START) @@ (2 :> END) @@ (3 :> <<"e">>)
        @@ (4 :> <<"e", "n">>)

\* __init__: the fields the constructor copies from config.
MkSelf(L, T) ==
    [ num_input_tokens |-> 5,
      max_input_seq_length |-> L,
      num_target_tokens |-> 5,
      max_target_seq_length |-> T,
      input_word2idx |-> input_word2idx_of,
      target_word2idx |-> target_word2idx_of,
      target_idx2word |-> target_idx2word_of ]

Configs == {MkSelf(L, T) : L \in 1..MaxSeqLen, T \in 1..MaxSeqLen}

\* ------------------------------------------------------------------ keras
\* Python's s[-n:] : the last n elements, the whole of s when n = 0.
LastN(s, n) ==
    IF n = 0 \/ n >= Len(s) THEN s ELSE SubSeq(s, Len(s) - n + 1, Len(s))

\* keras pad_sequences, one row (padding='pre', truncating='pre', value=0).
PadRow(s, maxlen) ==
    LET trunc == LastN(s, maxlen) IN
    [i \in 1..maxlen |->
        IF i <= maxlen - Len(trunc) THEN 0 ELSE trunc[i - (maxlen - Len(trunc))]]

\* keras pad_sequences(sequences, maxlen)
pad_sequences(seqs, maxlen) == [k \in 1..Len(seqs) |-> PadRow(seqs[k], maxlen)]

\* ------------------------------------------- OneShotRNN data preparation
\* The inner loop of transform_input_text from word i on, x being the row so far.
RECURSIVE OneShot_input_line(_, _, _, _)
OneShot_input_line(self, words, i, x) ==
    IF i > Len(words) THEN x
    ELSE LET word == words[i]
             wid == IF word \in DOMAIN self.input_word2idx
                    THEN self.input_word2idx[word] ELSE 1
             x2 == Append(x, wid)
         IN IF Len(x2) >= self.max_input_seq_length THEN x2
            ELSE OneShot_input_line(self, words, i + 1, x2)

\* transform_input_text without the break: every word is indexed and the
\* truncation is left to pad_sequences, which keeps the last words.
OneShot_transform_input_text_NoBreak(self, texts) ==
    LET temp == [k \in 1..Len(texts) |->
                    OneShot_input_line(
                        [self EXCEPT !.max_input_seq_length = Len(texts[k]) + 2],
                        Split(Lower(texts[k])), 1, <<>>)]
    IN pad_sequences(temp, self.max_input_seq_length)

OneShot_transform_input_text(self, texts) ==
    LET temp == [k \in 1..Len(texts) |->
                    OneShot_input_line(self, Split(Lower(texts[k])), 1, <<>>)]
    IN pad_sequences(temp, self.max_input_seq_length)

RECURSIVE OneShot_target_line(_, _, _, _)
OneShot_target_line(self, words, i, x) ==
    IF i > Len(words) THEN x
    ELSE LET x2 == Append(x, words[i])
         IN IF Len(x2) >= self.max_target_seq_length THEN x2
            ELSE OneShot_target_line(self, words, i + 1, x2)

\* transform_target_encoding without line.lower().
OneShot_transform_target_encoding_NoLower(self, texts) ==
    [k \in 1..Len(texts) |->
        LET line2 == START_ \o texts[k] \o _END
        IN OneShot_target_line(self, Split(line2), 1, <<>>)]

\* np.array(temp) keeps the rows and the words of temp as they are.
OneShot_transform_target_encoding(self, texts) ==
    [k \in 1..Len(texts) |->
        LET line2 == START_ \o Lower(texts[k]) \o _END
        IN OneShot_target_line(self, Split(line2), 1, <<>>)]

\* ---------------------------------------- RecursiveRNN1 data preparation
RECURSIVE Rec1_input_line(_, _, _, _)
Rec1_input_line(self, words, i, x) ==
    IF i > Len(words) THEN x
    ELSE LET word == words[i]
             wid == IF word \in DOMAIN self.input_word2idx
                    THEN self.input_word2idx[word] ELSE 1
             x2 == Append(x, wid)
         IN IF Len(x2) >= self.max_input_seq_length THEN x2
            ELSE Rec1_input_line(self, words, i + 1, x2)

Rec1_transform_input_text(self, texts) ==
    LET temp == [k \in 1..Len(texts) |->
                    Rec1_input_line(self, Split(Lower(texts[k])), 1, <<>>)]
    IN pad_sequences(temp, self.max_input_seq_length)

RECURSIVE Rec1_target_line(_, _, _, _)
Rec1_target_line(self, words, i, x) ==
    IF i > Len(words) THEN x
    ELSE LET x2 == Append(x, words[i])
         IN IF Len(x2) >= self.max_target_seq_length THEN x2
            ELSE Rec1_target_line(self, words, i + 1, x2)

Rec1_transform_target_encoding(self, texts) ==
    [k \in 1..Len(texts) |->
        LET line2 == START_ \o Lower(texts[k]) \o _END
        IN Rec1_target_line(self, Split(line2), 1, <<>>)]

\* ---------------------------------------- RecursiveRNN2 data preparation
RECURSIVE Rec2_input_line(_, _, _, _)
Rec2_input_line(self, words, i, x) ==
    IF i > Len(words) THEN x
    ELSE LET word == words[i]
             wid == IF word \in DOMAIN self.input_word2idx
                    THEN self.input_word2idx[word] ELSE 1
             x2 == Append(x, wid)
         IN IF Len(x2) >= self.max_input_seq_length THEN x2
            ELSE Rec2_input_line(self, words, i + 1, x2)

\* transform_input_text padding after the words instead of before them.
Rec2_transform_input_text_PadPost(self, texts) ==
    LET temp == [k \in 1..Len(texts) |->
                    Rec2_input_line(self, Split(Lower(texts[k])), 1, <<>>)]
    IN [k \in 1..Len(texts) |->
           [i \in 1..self.max_input_seq_length |->
               IF i <= Len(temp[k]) THEN temp[k][i] ELSE 0]]

Rec2_transform_input_text(self, texts) ==
    LET temp == [k \in 1..Len(texts) |->
                    Rec2_input_line(self, Split(Lower(texts[k])), 1, <<>>)]
    IN pad_sequences(temp, self.max_input_seq_length)

RECURSIVE Rec2_target_line(_, _, _, _)
Rec2_target_line(self, words, i, x) ==
    IF i > Len(words) THEN x
    ELSE LET x2 == Append(x, words[i])
         IN IF Len(x2) >= self.max_target_seq_length THEN x2
            ELSE Rec2_target_line(self, words, i + 1, x2)

Rec2_transform_target_encoding(self, texts) ==
    [k \in 1..Len(texts) |->
        LET line2 == START_ \o Lower(texts[k]) \o _END
        IN Rec2_target_line(self, Split(line2), 1, <<>>)]

\* ------------------------------------------------------------ dispatch
transform_input_text(v, self, texts) ==
    CASE v = OneShotRNN -> OneShot_transform_input_text(self, texts)
      [] v = RecursiveRNN1 -> Rec1_transform_input_text(self, texts)
      [] v = RecursiveRNN2 -> Rec2_transform_input_text(self, texts)

transform_target_encoding(v, self, texts) ==
    CASE v = OneShotRNN -> OneShot_transform_target_encoding(self, texts)
      [] v = RecursiveRNN1 -> Rec1_transform_target_encoding(self, texts)
      [] v = RecursiveRNN2 -> Rec2_transform_target_encoding(self, texts)

\* ------------------------------------------------------------ the network
\* What model.predict returns: an ndarray, its shape beside its entries.
\* OneShotRNN ends in TimeDistributed(Dense(num_target_tokens)) over an LSTM with
\* return_sequences=True: one score vector per target position.
OneShot_output_shape(self) == <<self.max_target_seq_length, self.num_target_tokens>>
OneShot_predict(self, scores) ==
    [shape |-> <<1>> \o OneShot_output_shape(self), data |-> <<scores>>]

\* RecursiveRNN1 and RecursiveRNN2 end in Dense(num_target_tokens) over a
\* layer without return_sequences: one score vector per sample.
Recursive_output_shape(self) == <<self.num_target_tokens>>
Recursive_predict(self, scores) ==
    [shape |-> <<1>> \o Recursive_output_shape(self), data |-> <<scores>>]

\* The shape of one sample of the network's output.
output_shape(v, self) ==
    IF v = OneShotRNN THEN OneShot_output_shape(self) ELSE Recursive_output_shape(self)

\* The score vectors a network can give: a score per token index 0..V-1.
Tokens(self) == 0..(self.num_target_tokens - 1)
ScoreVectors(self) == [Tokens(self) -> 0..MaxScore]
\* One position's scores when all of a sequence's positions are predicted at once.
PeakedVectors(self) ==
    {[t \in Tokens(self) |-> IF t = p THEN MaxScore ELSE 0] : p \in Tokens(self)}
        \cup {[t \in Tokens(self) |-> 0]}

\* np.argmax of a vector: the first index of its largest entry.
ArgMaxVector(vec) ==
    CHOOSE i \in DOMAIN vec :
        /\ \A k \in DOMAIN vec : vec[k] <= vec[i]
        /\ \A k \in DOMAIN vec : (k < i) => vec[k] < vec[i]

\* np.argmax(a) with no axis: the index into the flattened array, a scalar.
np_argmax(a) ==
    LET V == a.shape[Len(a.shape)]
        rows == a.data[1]
        flat == [n \in 0..(Len(rows) * V - 1) |-> rows[(n \div V) + 1][n % V]]
    IN [shape |-> <<>>, data |-> ArgMaxVector(flat)]

\* The words of a text as summarize indexes them: every word, none dropped.
RECURSIVE summarize_input_wids(_, _, _)
summarize_input_wids(self, words, i) ==
    IF i > Len(words) THEN <<>>
    ELSE LET word == words[i]
             idx == IF word \in DOMAIN self.input_word2idx
                    THEN self.input_word2idx[word] ELSE 1
         IN <<idx>> \o summarize_input_wids(self, words, i + 1)

summarize_input_seq(self, text) ==
    pad_sequences(<<summarize_input_wids(self, Split(Lower(text)), 1)>>,
                  self.max_input_seq_length)

\* ------------------------------------------------------------ generate_batch
Min(a, b) == IF a <= b THEN a ELSE b

\* Python's s[start:end], start and end counted from 0.
Slice(s, start, end) == SubSeq(s, start + 1, Min(end, Len(s)))

\* The index of a target word, 0 ([UNK]) when target_word2idx has none.
w2idx_of(self, w) ==
    IF w \in DOMAIN self.target_word2idx THEN self.target_word2idx[w] ELSE 0

\* np.zeros(shape) with ones written into it: the shape and the places of the ones.
ZerosWithOnes(shape, ones) == [shape |-> shape, ones |-> ones]

target_shape(self) ==
    <<BATCH_SIZE, self.max_target_seq_length, self.num_target_tokens>>

\* The body of OneShotRNN.generate_batch's for loop: the batch it yields.
OneShot_batch(self, x_samples, y_samples, batchIdx) ==
    LET start == batchIdx * BATCH_SIZE
        end == (batchIdx + 1) * BATCH_SIZE
        lines == Slice(y_samples, start, end)
        encoder_input_data_batch ==
            pad_sequences(Slice(x_samples, start, end), self.max_input_seq_length)
        ones == UNION { { <<lineIdx, idx, w2idx_of(self, lines[lineIdx + 1][idx + 1])>> :
                            idx \in { i \in 0..(Len(lines[lineIdx + 1]) - 1) :
                                        w2idx_of(self, lines[lineIdx + 1][i + 1]) # 0 } } :
                        lineIdx \in 0..(Len(lines) - 1) }
    IN [inputs |-> <<encoder_input_data_batch>>,
        target |-> ZerosWithOnes(target_shape(self), ones)]

\* decoder_line: the indices of the first max_target_seq_length target words.
decoder_line_of(self, target_words) ==
    [i \in 1..Min(Len(target_words), self.max_target_seq_length) |->
        w2idx_of(self, target_words[i])]

\* The body of the for loop of RecursiveRNN1.generate_batch and
\* RecursiveRNN2.generate_batch: the batch it yields.
Recursive_batch(self, x_samples, y_samples, batchIdx) ==
    LET start == batchIdx * BATCH_SIZE
        end == (batchIdx + 1) * BATCH_SIZE
        lines == Slice(y_samples, start, end)
        encoder_input_data_batch ==
            pad_sequences(Slice(x_samples, start, end), self.max_input_seq_length)
        decoder_input_data_batch ==
            pad_sequences([k \in 1..Len(lines) |-> decoder_line_of(self, lines[k])],
                          self.max_target_seq_length)
        ones == UNION { { <<lineIdx, idx, w2idx_of(self, lines[lineIdx + 1][idx + 1])>> :
                            idx \in { i \in 0..(Len(lines[lineIdx + 1]) - 1) :
                                        /\ w2idx_of(self, lines[lineIdx + 1][i + 1]) # 0
                                        /\ i # 0 } } :
                        lineIdx \in 0..(Len(lines) - 1) }
    IN [inputs |-> <<encoder_input_data_batch, decoder_input_data_batch>>,
        target |-> ZerosWithOnes(target_shape(self), ones)]

batch_of(v, self, g) ==
    IF v = OneShotRNN THEN OneShot_batch(self, g.x_samples, g.y_samples, g.batchIdx)
    ELSE Recursive_batch(self, g.x_samples, g.y_samples, g.batchIdx)

\* len(x_samples) // BATCH_SIZE with the division rounded up.
num_batches_RoundedUp(x_samples) == (Len(x_samples) + BATCH_SIZE - 1) \div BATCH_SIZE

\* num_batches = len(x_samples) // BATCH_SIZE
num_batches_of(x_samples) == Len(x_samples) \div BATCH_SIZE

\* generate_batch(x_samples, y_samples): a generator whose body has not run yet.
generate_batch(x_samples, y_samples) ==
    [x_samples |-> x_samples, y_samples |-> y_samples,
     state |-> "created", num_batches |-> 0, batchIdx |-> 0]

NoGenerator ==
    [x_samples |-> <<>>, y_samples |-> <<>>,
     state |-> "none", num_batches |-> 0, batchIdx |-> 0]

\* The generator run from where it stands to its next yield: `while True` over
\* `for batchIdx in range(0, num_batches)`.  With num_batches = 0 the for loop
\* has no iteration and `while True` never reaches a yield.
generator_resume(g) ==
    LET nb == IF g.state = "created" THEN num_batches_of(g.x_samples)
              ELSE g.num_batches
    IN IF nb = 0
       THEN [g EXCEPT !.state = "spinning", !.num_batches = nb]
       ELSE IF g.state = "created"
       THEN [g EXCEPT !.state = "suspended", !.num_batches = nb, !.batchIdx = 0]
       ELSE IF g.batchIdx + 1 < nb
       THEN [g EXCEPT !.batchIdx = g.batchIdx + 1]
       ELSE [g EXCEPT !.batchIdx = 0]

\* ------------------------------------------------------------------- paths
\* A path is the sequence of the strings concatenated into it.
get_weight_file_path(v, model_dir_path) == <<model_dir_path, "/", v, "-weights.h5">>
get_config_file_path(v, model_dir_path) == <<model_dir_path, "/", v, "-config.npy">>
\* get_architecture_file_path with the suffix of get_weight_file_path.
get_architecture_file_path_WeightsSuffix(v, model_dir_path) ==
    <<model_dir_path, "/", v, "-weights.h5">>

get_architecture_file_path(v, model_dir_path) ==
    <<model_dir_path, "/", v, "-architecture.json">>

\* ------------------------------------------------------------------ state
VARIABLES
    config,          \* the config the objects were constructed from (self.*)
    texts,           \* the argument of the transform_* calls
    ret,             \* per class and method, whether the call returned and its value
    variant,         \* the class of the object summarize is called on
    pc,              \* where the call is
    input_text,      \* the argument of summarize
    input_seq,
    sum_input_seq,
    terminated,
    target_text_len,
    target_text,
    calls,           \* the model.predict calls so far: the inputs and the output
    outcome,         \* how the call ended: a return value or a raised exception
    gen,             \* the generators train_gen and test_gen
    yielded,         \* per generator, how many batches it yielded and the last one
    fit_args,        \* the arguments of fit
    epochs,
    model_dir_path,
    epoch,           \* fit_generator: the epoch under way
    steps_done,      \* fit_generator: the training batches of this epoch so far
    val_steps_done,  \* fit_generator: the validation batches of this epoch so far
    dir_exists,      \* whether the directory fit is to write into exists
    files,           \* the files written
    events           \* the file writes and batch requests of fit, in order

transformVars == <<texts, ret>>
summarizeVars == <<variant, pc, input_text, input_seq, sum_input_seq, terminated,
                   target_text_len, target_text, calls, outcome>>
summarizeLocals == <<input_text, input_seq, sum_input_seq, terminated,
                     target_text_len, target_text, calls>>
genVars == <<gen, yielded>>
fitVars == <<fit_args, epochs, model_dir_path, epoch, steps_done, val_steps_done,
             dir_exists, files, events>>
trainVars == <<genVars, fitVars>>
vars == <<config, transformVars, summarizeVars, trainVars>>

Methods == {"transform_input_text", "transform_target_encoding"}
NotCalled == [done |-> FALSE, value |-> <<>>]
Returned(value) == [done |-> TRUE, value |-> value]

Running == [kind |-> "running", value |-> <<>>, exc |-> ""]
Return(value) == [kind |-> "return", value |-> value, exc |-> ""]
Raise(exc) == [kind |-> "raise", value |-> <<>>, exc |-> exc]

\* No summarize call is under way.
NoSummarize ==
    /\ variant = OneShotRNN
    /\ pc = "idle"
    /\ input_text = <<>>
    /\ input_seq = <<>>
    /\ sum_input_seq = <<>>
    /\ terminated = FALSE
    /\ target_text_len = 0
    /\ target_text = <<>>
    /\ calls = <<>>
    /\ outcome = Running

GenNames == {"train", "test"}
NoBatch == [inputs |-> <<>>, target |-> [shape |-> <<>>, ones |-> {}]]
NoArgs == [Xtrain |-> <<>>, Ytrain |-> <<>>, Xtest |-> <<>>, Ytest |-> <<>>,
           epochs |-> [is_none |-> TRUE, value |-> 0],
           model_dir_path |-> [is_none |-> TRUE, value |-> ""]]

\* No generator exists and fit is not under way.
NoTraining ==
    /\ gen = [n \in GenNames |-> NoGenerator]
    /\ yielded = [n \in GenNames |-> [count |-> 0, batch |-> NoBatch]]
    /\ fit_args = NoArgs
    /\ epochs = 0
    /\ model_dir_path = ""
    /\ epoch = 0
    /\ steps_done = 0
    /\ val_steps_done = 0
    /\ dir_exists = TRUE
    /\ files = {}
    /\ events = <<>>

\* No transform_* call was made.
NoTransform ==
    /\ texts = <<>>
    /\ ret = [v \in Variants |-> [m \in Methods |-> NotCalled]]

\* -------------------------------------------------- the transform_* calls
\* The lists of texts the transformations are called with.
SecondText == <<"E", " ", "N">>
TextLists == {<<>>} \cup {<<t>> : t \in Texts} \cup {<<t, SecondText>> : t \in Texts}

InitTransform ==
    /\ config \in Configs
    /\ texts \in TextLists
    /\ ret = [v \in Variants |-> [m \in Methods |-> NotCalled]]
    /\ NoSummarize
    /\ NoTraining

CallTransformInputText(v) ==
    /\ ~ret[v]["transform_input_text"].done
    /\ ret' = [ret EXCEPT ![v]["transform_input_text"] =
                Returned(transform_input_text(v, config, texts))]
    /\ UNCHANGED <<config, texts, summarizeVars, trainVars>>

CallTransformTargetEncoding(v) ==
    /\ ~ret[v]["transform_target_encoding"].done
    /\ ret' = [ret EXCEPT ![v]["transform_target_encoding"] =
                Returned(transform_target_encoding(v, config, texts))]
    /\ UNCHANGED <<config, texts, summarizeVars, trainVars>>

NextTransform ==
    \/ \E v \in Variants : CallTransformInputText(v)
    \/ \E v \in Variants : CallTransformTargetEncoding(v)

SpecTransform == InitTransform /\ [][NextTransform]_vars

\* ---------------------------------------------------------------- summarize
\* The texts summarize is called with.
SummarizeTexts ==
    { <<>>, <<"E">>, <<"E", " ", "N">>, <<"E", "N", " ", "D", " ", "E">> }

InitSummarize ==
    /\ config \in Configs
    /\ NoTransform
    /\ variant \in Variants
    /\ pc = "start"
    /\ input_text \in SummarizeTexts
    /\ input_seq = <<>>
    /\ sum_input_seq = <<>>
    /\ terminated = FALSE
    /\ target_text_len = 0
    /\ target_text = <<>>
    /\ calls = <<>>
    /\ outcome = Running
    /\ NoTraining

\* OneShotRNN.summarize, the whole call: index the text, predict once, take the
\* argmax of the prediction and look the words up.
OneShot_summarize ==
    /\ variant = OneShotRNN
    /\ pc = "start"
    /\ \E scores \in [1..config.max_target_seq_length -> PeakedVectors(config)] :
          LET seq == summarize_input_seq(config, input_text)
              predicted == OneShot_predict(config, scores)
              predicted_word_idx_list == np_argmax(predicted)
          IN /\ input_seq' = seq
             /\ calls' = Append(calls, [inputs |-> <<seq>>, output |-> predicted])
             /\ outcome' =
                   \* iterating a 0-dimensional array
                   IF Len(predicted_word_idx_list.shape) = 0
                   THEN Raise("TypeError")
                   \* target_word2idx is keyed by words, wid is an index
                   ELSE IF \E n \in DOMAIN predicted_word_idx_list.data :
                              predicted_word_idx_list.data[n]
                                  \notin DOMAIN config.target_word2idx
                   THEN Raise("KeyError")
                   ELSE Return([n \in DOMAIN predicted_word_idx_list.data |->
                           config.target_word2idx[predicted_word_idx_list.data[n]]])
    /\ pc' = "done"
    /\ UNCHANGED <<config, transformVars, trainVars, variant, input_text, sum_input_seq,
                   terminated, target_text_len, target_text>>

\* RecursiveRNN1.summarize and RecursiveRNN2.summarize up to the loop.
Recursive_summarize_begin ==
    /\ variant \in {RecursiveRNN1, RecursiveRNN2}
    /\ pc = "start"
    /\ input_seq' = summarize_input_seq(config, input_text)
    /\ IF START \in DOMAIN config.target_word2idx
       THEN /\ sum_input_seq' =
                  <<[i \in 1..config.max_target_seq_length |->
                        IF i = 1 THEN config.target_word2idx[START] ELSE 0]>>
            /\ pc' = "loop"
            /\ outcome' = outcome
       ELSE /\ sum_input_seq' = <<[i \in 1..config.max_target_seq_length |-> 0]>>
            /\ pc' = "done"
            /\ outcome' = Raise("KeyError")
    /\ terminated' = FALSE
    /\ target_text_len' = 0
    /\ target_text' = <<>>
    /\ UNCHANGED <<config, transformVars, trainVars, variant, input_text, calls>>

\* One iteration of the while loop of RecursiveRNN1.summarize and
\* RecursiveRNN2.summarize; the iteration that terminates also returns.
\* output_tokens[0, -1, :] takes three indices: numpy raises IndexError when
\* the array predict returned has fewer dimensions.
Recursive_summarize_iteration ==
    /\ variant \in {RecursiveRNN1, RecursiveRNN2}
    /\ pc = "loop"
    /\ ~terminated
    /\ \E scores \in ScoreVectors(config) :
          LET output_tokens == Recursive_predict(config, scores)
          IN /\ calls' = Append(calls, [inputs |-> <<input_seq, sum_input_seq>>,
                                        output |-> output_tokens])
             /\ IF Len(output_tokens.shape) < 3
                THEN \* output_tokens[0, -1, :] on an array of fewer dimensions
                     /\ outcome' = Raise("IndexError")
                     /\ pc' = "done"
                     /\ UNCHANGED <<sum_input_seq, terminated, target_text_len,
                                    target_text>>
                ELSE LET last == output_tokens.data[1][Len(output_tokens.data[1])]
                         sample_token_idx == ArgMaxVector(last)
                         sample_word == config.target_idx2word[sample_token_idx]
                         len2 == target_text_len + 1
                         text2 == IF sample_word # START /\ sample_word # END
                                  THEN target_text \o <<" ">> \o sample_word
                                  ELSE target_text
                         stop == sample_word = END
                                    \/ len2 >= config.max_target_seq_length
                     IN /\ target_text_len' = len2
                        /\ target_text' = text2
                        /\ terminated' = stop
                        /\ sum_input_seq' =
                              IF stop THEN sum_input_seq
                              ELSE [sum_input_seq EXCEPT ![1][len2 + 1] =
                                        sample_token_idx]
                        /\ pc' = IF stop THEN "done" ELSE "loop"
                        /\ outcome' = IF stop THEN Return(text2) ELSE outcome
    /\ UNCHANGED <<config, transformVars, trainVars, variant, input_text, input_seq>>

NextSummarize ==
    \/ OneShot_summarize
    \/ Recursive_summarize_begin
    \/ Recursive_summarize_iteration

SpecSummarize == InitSummarize /\ [][NextSummarize]_vars

\* ------------------------------------------------- generators and fit
\* The texts the sample lists are drawn from, sample i being text i of the pool,
\* the pool repeated.
XPool == << <<"E", " ", "N">>, <<"E", "N", "D">>, <<"N", " ", "E", " ", "E", "N">> >>
YPool == << <<"E">>, <<"E", " ", "E", "N">>, <<"E", "N", "D">>, <<>>,
            <<"E", "N", " ", "E", " ", "E">> >>
Samples(pool, n) == [i \in 1..n |-> pool[((i - 1) % Len(pool)) + 1]]

\* The lengths of the sample lists: full batches and a remainder.
SampleCounts ==
    {b * BATCH_SIZE + r : b \in 0..MaxBatches, r \in {0, 1, BATCH_SIZE - 1}}
TrainConfigs == {MkSelf(L, T) : L \in {1, MaxSeqLen}, T \in {2, MaxSeqLen}}

Some(x) == [is_none |-> FALSE, value |-> x]
NoneOf(x) == [is_none |-> TRUE, value |-> x]

\* A caller that makes a generator as fit does and draws batches from it.
InitGenerator ==
    /\ config \in TrainConfigs
    /\ NoTransform
    /\ variant \in Variants
    /\ pc = "caller"
    /\ outcome = Running
    /\ input_text = <<>> /\ input_seq = <<>> /\ sum_input_seq = <<>>
    /\ terminated = FALSE /\ target_text_len = 0 /\ target_text = <<>>
    /\ calls = <<>>
    /\ \E n \in SampleCounts :
          gen = [name \in GenNames |->
                    IF name = "train"
                    THEN generate_batch(
                            transform_input_text(variant, config, Samples(XPool, n)),
                            transform_target_encoding(variant, config, Samples(YPool, n)))
                    ELSE NoGenerator]
    /\ yielded = [n \in GenNames |-> [count |-> 0, batch |-> NoBatch]]
    /\ fit_args = NoArgs
    /\ epochs = 0
    /\ model_dir_path = ""
    /\ epoch = 0
    /\ steps_done = 0
    /\ val_steps_done = 0
    /\ dir_exists = TRUE
    /\ files = {}
    /\ events = <<>>

\* A call of fit, on train and test lists that hold a full batch at least
\* (steps_per_epoch and validation_steps are 1 or more).
InitFit ==
    /\ config \in TrainConfigs
    /\ NoTransform
    /\ variant \in Variants
    /\ pc = "fit"
    /\ outcome = Running
    /\ input_text = <<>> /\ input_seq = <<>> /\ sum_input_seq = <<>>
    /\ terminated = FALSE /\ target_text_len = 0 /\ target_text = <<>>
    /\ calls = <<>>
    /\ gen = [n \in GenNames |-> NoGenerator]
    /\ yielded = [n \in GenNames |-> [count |-> 0, batch |-> NoBatch]]
    /\ \E ntrain \in {n \in SampleCounts : n >= BATCH_SIZE},
          ntest \in {BATCH_SIZE, 2 * BATCH_SIZE + 1},
          e \in {NoneOf(0)} \cup {Some(k) : k \in 0..MaxEpochs},
          d \in {NoneOf(""), Some("out")} :
          fit_args = [Xtrain |-> Samples(XPool, ntrain), Ytrain |-> Samples(YPool, ntrain),
                      Xtest |-> Samples(XPool, ntest), Ytest |-> Samples(YPool, ntest),
                      epochs |-> e, model_dir_path |-> d]
    /\ epochs = 0
    /\ model_dir_path = ""
    /\ epoch = 0
    /\ steps_done = 0
    /\ val_steps_done = 0
    /\ dir_exists \in BOOLEAN
    /\ files = {}
    /\ events = <<>>

Event(kind, path) == [kind |-> kind, path |-> path]

\* next(generator) by the caller: the generator runs to its next yield, or
\* never returns.
next_batch ==
    /\ pc = "caller"
    /\ yielded["train"].count < MaxYields
    /\ LET g == generator_resume(gen["train"]) IN
          /\ gen' = [gen EXCEPT !["train"] = g]
          /\ IF g.state = "spinning"
             THEN /\ pc' = "hung"
                  /\ yielded' = yielded
             ELSE /\ pc' = pc
                  /\ yielded' = [yielded EXCEPT !["train"] =
                        [count |-> @.count + 1, batch |-> batch_of(variant, config, g)]]
    /\ UNCHANGED <<config, transformVars, variant, outcome, summarizeLocals, fitVars>>

\* fit up to np.save(config_file_path, self.config).
fit_save_config ==
    /\ pc = "fit"
    /\ LET e == IF fit_args.epochs.is_none THEN EPOCHS ELSE fit_args.epochs.value
           d == IF fit_args.model_dir_path.is_none THEN "./models"
                ELSE fit_args.model_dir_path.value
           config_file_path == get_config_file_path(variant, d)
       IN /\ epochs' = e
          /\ model_dir_path' = d
          /\ IF dir_exists
             THEN /\ files' = files \cup {config_file_path}
                  /\ events' = Append(events, Event("np.save", config_file_path))
                  /\ pc' = "fit:architecture"
                  /\ outcome' = outcome
             ELSE /\ files' = files
                  /\ events' = events
                  /\ pc' = "done"
                  /\ outcome' = Raise("FileNotFoundError")
    /\ UNCHANGED <<config, transformVars, variant, summarizeLocals, genVars, fit_args,
                   epoch, steps_done, val_steps_done, dir_exists>>

\* open(architecture_file_path, 'w').write(self.model.to_json())
fit_write_architecture ==
    /\ pc = "fit:architecture"
    /\ LET architecture_file_path == get_architecture_file_path(variant, model_dir_path)
       IN /\ files' = files \cup {architecture_file_path}
          /\ events' = Append(events, Event("write", architecture_file_path))
    /\ pc' = "fit:prepare"
    /\ UNCHANGED <<config, transformVars, variant, outcome, summarizeLocals, genVars,
                   fit_args, epochs, model_dir_path, epoch, steps_done, val_steps_done,
                   dir_exists>>

\* The transformations of the four lists and the two generators; fit_generator
\* then starts with epoch 0, or has nothing to do.
fit_prepare ==
    /\ pc = "fit:prepare"
    /\ LET Ytrain == transform_target_encoding(variant, config, fit_args.Ytrain)
           Ytest == transform_target_encoding(variant, config, fit_args.Ytest)
           Xtrain == transform_input_text(variant, config, fit_args.Xtrain)
           Xtest == transform_input_text(variant, config, fit_args.Xtest)
       IN gen' = [n \in GenNames |->
                    IF n = "train" THEN generate_batch(Xtrain, Ytrain)
                    ELSE generate_batch(Xtest, Ytest)]
    /\ epoch' = 0
    /\ steps_done' = 0
    /\ val_steps_done' = 0
    /\ pc' = IF epochs > 0 THEN "fit:train" ELSE "fit:save_weights"
    /\ UNCHANGED <<config, transformVars, variant, outcome, summarizeLocals, yielded,
                   fit_args, epochs, model_dir_path, dir_exists, files, events>>

train_num_batches == Len(gen["train"].x_samples) \div BATCH_SIZE
test_num_batches == Len(gen["test"].x_samples) \div BATCH_SIZE

\* fit_generator, one training step: the next batch of train_gen is trained on.
\* A batch whose target has not the rank of the network's output is refused.
fit_train_step ==
    /\ pc = "fit:train"
    /\ steps_done < train_num_batches
    /\ LET g == generator_resume(gen["train"])
           batch == batch_of(variant, config, g)
       IN /\ gen' = [gen EXCEPT !["train"] = g]
          /\ yielded' = [yielded EXCEPT !["train"] =
                            [count |-> @.count + 1, batch |-> batch]]
          /\ events' = Append(events, Event("next:train", <<>>))
          /\ IF Len(batch.target.shape) # Len(output_shape(variant, config)) + 1
             THEN /\ outcome' = Raise("ValueError")
                  /\ pc' = "done"
                  /\ steps_done' = steps_done
             ELSE /\ outcome' = outcome
                  /\ steps_done' = steps_done + 1
                  /\ pc' = IF steps_done + 1 >= train_num_batches
                           THEN "fit:validate" ELSE "fit:train"
    /\ UNCHANGED <<config, transformVars, variant, summarizeLocals, fit_args, epochs,
                   model_dir_path, epoch, val_steps_done, dir_exists, files>>

\* fit_generator, one validation step at the end of an epoch: the next batch of
\* test_gen is evaluated.
fit_validation_step ==
    /\ pc = "fit:validate"
    /\ val_steps_done < test_num_batches
    /\ LET g == generator_resume(gen["test"])
       IN /\ gen' = [gen EXCEPT !["test"] = g]
          /\ yielded' = [yielded EXCEPT !["test"] =
                            [count |-> @.count + 1,
                             batch |-> batch_of(variant, config, g)]]
    /\ events' = Append(events, Event("next:test", <<>>))
    /\ val_steps_done' = val_steps_done + 1
    /\ pc' = IF val_steps_done + 1 >= test_num_batches
             THEN "fit:epoch_end" ELSE "fit:validate"
    /\ UNCHANGED <<config, transformVars, variant, outcome, summarizeLocals, fit_args,
                   epochs, model_dir_path, epoch, steps_done, dir_exists, files>>

\* The end of an epoch: callbacks=[checkpoint] saves to weight_file_path.
fit_epoch_end ==
    /\ pc = "fit:epoch_end"
    /\ LET weight_file_path == get_weight_file_path(variant, model_dir_path)
       IN /\ files' = files \cup {weight_file_path}
          /\ events' = Append(events, Event("checkpoint", weight_file_path))
    /\ epoch' = epoch + 1
    /\ steps_done' = 0
    /\ val_steps_done' = 0
    /\ pc' = IF epoch + 1 < epochs THEN "fit:train" ELSE "fit:save_weights"
    /\ UNCHANGED <<config, transformVars, variant, outcome, summarizeLocals, genVars,
                   fit_args, epochs, model_dir_path, dir_exists>>

\* self.model.save_weights(weight_file_path); return history
fit_save_weights ==
    /\ pc = "fit:save_weights"
    /\ LET weight_file_path == get_weight_file_path(variant, model_dir_path)
       IN /\ files' = files \cup {weight_file_path}
          /\ events' = Append(events, Event("save_weights", weight_file_path))
    /\ pc' = "done"
    /\ outcome' = Return(<<"history">>)
    /\ UNCHANGED <<config, transformVars, variant, summarizeLocals, genVars, fit_args,
                   epochs, model_dir_path, epoch, steps_done, val_steps_done,
                   dir_exists>>

InitTrain == InitGenerator \/ InitFit

NextTrain ==
    \/ next_batch
    \/ fit_save_config
    \/ fit_write_architecture
    \/ fit_prepare
    \/ fit_train_step
    \/ fit_validation_step
    \/ fit_epoch_end
    \/ fit_save_weights

SpecTrain == InitTrain /\ [][NextTrain]_vars

\* ----------------------------------------------------------------- claims

\* C4: for the same config and the same list of texts, transform_input_text
\* returns the same result in OneShotRNN, RecursiveRNN1 and RecursiveRNN2, and so
\* does transform_target_encoding.
C4_SameDataPreparation ==
    \A m \in Methods : \A v1, v2 \in Variants :
        (ret[v1][m].done /\ ret[v2][m].done) => ret[v1][m].value = ret[v2][m].value

C4_Witness ==
    /\ \A m \in Methods : \A v \in Variants : ret[v][m].done
    /\ Len(texts) = 2
    /\ \E k \in 1..Len(texts) :
          Len(Split(Lower(texts[k]))) > config.max_input_seq_length
    /\ \E k \in 1..Len(texts) :
          Len(Split(Lower(texts[k]))) + 2 > config.max_target_seq_length

\* The index the claim gives a word: its input_word2idx entry, 1 when it has none.
C5_WordIndex(word) ==
    IF word \in DOMAIN config.input_word2idx THEN config.input_word2idx[word] ELSE 1

\* C5: transform_input_text maps every text to a row of exactly
\* max_input_seq_length indices: (max_input_seq_length - m) zeros followed by the
\* indices of the first m = min(n, max_input_seq_length) of the n space-separated
\* words of the lowercased text, a word outside input_word2idx mapping to 1.
C5_InputRow ==
    \A v \in Variants :
        LET r == ret[v]["transform_input_text"]
            L == config.max_input_seq_length
        IN r.done =>
            /\ Len(r.value) = Len(texts)
            /\ \A k \in 1..Len(texts) :
                  LET w == Split(Lower(texts[k]))
                      m == Min(Len(w), L)
                      row == r.value[k]
                  IN /\ Len(row) = L
                     /\ \A i \in 1..(L - m) : row[i] = 0
                     /\ \A j \in 1..m : row[L - m + j] = C5_WordIndex(w[j])

C5_Witness ==
    /\ ret[OneShotRNN]["transform_input_text"].done
    /\ \E k \in 1..Len(texts) :
          Len(Split(Lower(texts[k]))) > config.max_input_seq_length
    /\ \E k \in 1..Len(texts) :
          LET row == ret[OneShotRNN]["transform_input_text"].value[k]
          IN /\ Len(Split(Lower(texts[k]))) < config.max_input_seq_length
             /\ \E i \in 1..Len(row) : row[i] > 1
             /\ \E i \in 1..Len(row) : row[i] = 1

\* The sequence the claim truncates: 'START', the words of the lowercased text, 'END'.
C6_Sequence(text) == <<START>> \o Split(Lower(text)) \o <<END>>

\* C6: transform_target_encoding maps every text to the first
\* min(n, max_target_seq_length) words of 'START', the words of the lowercased
\* text, 'END'; 'START' is at position 0 and nowhere else, and 'END' occurs only
\* as the last element and only when n <= max_target_seq_length.
C6_TargetRow ==
    \A v \in Variants :
        LET r == ret[v]["transform_target_encoding"]
            T == config.max_target_seq_length
        IN r.done =>
            /\ Len(r.value) = Len(texts)
            /\ \A k \in 1..Len(texts) :
                  LET seq == C6_Sequence(texts[k])
                      n == Len(seq)
                      row == r.value[k]
                  IN /\ row = SubSeq(seq, 1, Min(n, T))
                     /\ row[1] = START
                     /\ \A i \in 2..Len(row) : row[i] # START
                     /\ \A i \in 1..Len(row) :
                           row[i] = END => (i = Len(row) /\ n <= T)

C6_Witness ==
    /\ ret[OneShotRNN]["transform_target_encoding"].done
    /\ \E k \in 1..Len(texts) :
          LET row == ret[OneShotRNN]["transform_target_encoding"].value[k]
          IN Len(row) > 2 /\ row[Len(row)] = END
    /\ \E k \in 1..Len(texts) :
          Len(C6_Sequence(texts[k])) > config.max_target_seq_length

\* ------------------------------------------------- claims about summarize
Recursive == {RecursiveRNN1, RecursiveRNN2}

\* The token index and the word the k-th model call of a recursive summarize
\* predicted: the argmax of the score vector the call returned.
PredictedToken(k) == ArgMaxVector(calls[k].output.data[1])
PredictedWord(k) == config.target_idx2word[PredictedToken(k)]

\* The k-th iteration is one the loop is to stop at.
C1_StopsAt(k) == PredictedWord(k) = END \/ k >= config.max_target_seq_length

\* C1: RecursiveRNN1.summarize and RecursiveRNN2.summarize call the model at most
\* max_target_seq_length times and stop at the first iteration in which the
\* predicted word is 'END' or the count of predicted words reaches
\* max_target_seq_length, and not before.
C1_StopsAtEndOrMaxLength ==
    (variant \in Recursive /\ pc \in {"loop", "done"}) =>
        /\ Len(calls) <= config.max_target_seq_length
        /\ \A k \in 1..(Len(calls) - 1) : ~C1_StopsAt(k)
        /\ pc = "done" => (Len(calls) >= 1 /\ C1_StopsAt(Len(calls)))
        /\ pc = "loop" => (Len(calls) = 0 \/ ~C1_StopsAt(Len(calls)))

\* The summary input the claim gives the k-th model call.
C2_SummaryInput(k) ==
    [i \in 1..config.max_target_seq_length |->
        IF i = 1 THEN config.target_word2idx[START]
        ELSE IF i <= k THEN PredictedToken(i - 1)
        ELSE 0]

\* C2: in RecursiveRNN1.summarize and RecursiveRNN2.summarize the summary is built
\* by calling the model with the previously generated word appended: the k-th call
\* gets 'START', then the tokens predicted by calls 1..k-1 in order, then zeros,
\* and every predicted word that does not end the summary is appended for the
\* next call, no written position changing afterwards.
C2_SummaryBuiltRecursively ==
    (variant \in Recursive /\ pc \in {"loop", "done"}) =>
        /\ \A k \in 1..Len(calls) : calls[k].inputs[2] = <<C2_SummaryInput(k)>>
        /\ \A k \in 1..Len(calls) :
              ~C1_StopsAt(k) => sum_input_seq[1][k + 1] = PredictedToken(k)

\* C3: OneShotRNN.summarize calls the model exactly once and returns a list of
\* max_target_seq_length words, the word at position t being the target-vocabulary
\* word whose index has the highest predicted score at position t.
C3_OneShotSummary ==
    (variant = OneShotRNN /\ pc = "done") =>
        /\ Len(calls) = 1
        /\ outcome.kind = "return"
        /\ Len(outcome.value) = config.max_target_seq_length
        /\ \A t \in 1..Len(outcome.value) :
              outcome.value[t] =
                  config.target_idx2word[ArgMaxVector(calls[1].output.data[1][t])]

\* ------------------------------------------ claims about generate_batch and fit
\* The ones sample line `words` puts into row lineIdx of the target: one per word
\* with a non-zero index, the first word left out by the recursive variants.
C7_Ones(words, lineIdx) ==
    { <<lineIdx, i - 1, config.target_word2idx[words[i]]>> :
        i \in { k \in 1..Len(words) :
                  /\ words[k] \in DOMAIN config.target_word2idx
                  /\ config.target_word2idx[words[k]] # 0
                  /\ (variant \in Recursive => k # 1) } }

\* The decoder input row of a sample of the recursive variants: the indices of
\* its words, zeros before them.
C7_DecoderRow(words) ==
    LET T == config.max_target_seq_length IN
    [i \in 1..T |->
        IF i <= T - Len(words) THEN 0
        ELSE LET w == words[i - (T - Len(words))]
             IN IF w \in DOMAIN config.target_word2idx
                THEN config.target_word2idx[w] ELSE 0]

C7_InFit == pc \in {"fit:train", "fit:validate", "fit:epoch_end", "fit:save_weights"}

\* C7: with N = len(x_samples) // BATCH_SIZE, the j-th batch a generator yields is
\* built from exactly the samples at positions [(j mod N) * BATCH_SIZE,
\* (j mod N + 1) * BATCH_SIZE) of x_samples and y_samples, in order and paired
\* position by position, so the trailing len(x_samples) mod BATCH_SIZE samples are
\* in no batch; and every epoch of fit draws exactly N training batches, the
\* first of them the batch that starts at sample 0.
C7_CyclicBatches ==
    /\ \A name \in GenNames :
          yielded[name].count >= 1 =>
              LET x == gen[name].x_samples
                  y == gen[name].y_samples
                  N == Len(x) \div BATCH_SIZE
                  j == yielded[name].count - 1
                  batch == yielded[name].batch
              IN /\ N >= 1
                 /\ Len(batch.inputs[1]) = BATCH_SIZE
                 /\ batch.target.ones \subseteq
                       UNION {C7_Ones(y[(j % N) * BATCH_SIZE + k], k - 1) :
                                k \in 1..BATCH_SIZE}
                 /\ \A k \in 1..BATCH_SIZE :
                       LET pos == (j % N) * BATCH_SIZE + k IN
                       /\ pos <= N * BATCH_SIZE
                       /\ batch.inputs[1][k] = x[pos]
                       /\ C7_Ones(y[pos], k - 1) \subseteq batch.target.ones
                       /\ variant \in Recursive =>
                             batch.inputs[2][k] = C7_DecoderRow(y[pos])
    /\ C7_InFit =>
          LET N == Len(gen["train"].x_samples) \div BATCH_SIZE IN
          /\ yielded["train"].count = epoch * N + steps_done
          /\ steps_done <= N
          /\ pc \in {"fit:validate", "fit:epoch_end"} => steps_done = N
          /\ steps_done >= 1 => gen["train"].batchIdx = steps_done - 1

C7_Witness ==
    /\ variant = OneShotRNN
    /\ pc = "fit:epoch_end"
    /\ epoch = 1
    /\ steps_done = 2
    /\ Len(gen["train"].x_samples) % BATCH_SIZE # 0
    /\ yielded["train"].count = 4
    /\ yielded["train"].batch.target.ones # {}

\* The directory, the number of epochs and the three paths the claim names.
C8_Dir ==
    IF fit_args.model_dir_path.is_none THEN "./models"
    ELSE fit_args.model_dir_path.value
C8_Epochs == IF fit_args.epochs.is_none THEN 10 ELSE fit_args.epochs.value
C8_ConfigFile == <<C8_Dir, "/", variant, "-config.npy">>
C8_ArchitectureFile == <<C8_Dir, "/", variant, "-architecture.json">>
C8_WeightsFile == <<C8_Dir, "/", variant, "-weights.h5">>
C8_Count(kind) == Cardinality({i \in DOMAIN events : events[i].kind = kind})

\* C8: fit writes the config file and the architecture file before it requests
\* the first training batch; the checkpoint after each epoch and the final
\* save_weights after the last epoch go to get_weight_file_path(model_dir_path);
\* and when fit returns, the config, architecture and weights files of the model
\* exist in model_dir_path ('./models' when none is given).
C8_PersistOrder ==
    fit_args # NoArgs =>
        /\ \A i \in DOMAIN events :
              events[i].kind = "next:train" =>
                  /\ \E a \in 1..(i - 1) : events[a] = Event("np.save", C8_ConfigFile)
                  /\ \E b \in 1..(i - 1) : events[b] = Event("write", C8_ArchitectureFile)
        /\ \A i \in DOMAIN events :
              events[i].kind \in {"checkpoint", "save_weights"} =>
                  events[i].path = C8_WeightsFile
        /\ C7_InFit => C8_Count("checkpoint") = epoch
        /\ \A i \in DOMAIN events :
              events[i].kind = "save_weights" =>
                  /\ i = Len(events)
                  /\ C8_Count("checkpoint") = C8_Epochs
        /\ (pc = "done" /\ outcome.kind = "return") =>
              /\ {C8_ConfigFile, C8_ArchitectureFile, C8_WeightsFile} \subseteq files
              /\ C8_Count("save_weights") = 1

C8_Witness ==
    /\ variant = OneShotRNN
    /\ pc = "done"
    /\ outcome.kind = "return"
    /\ fit_args.model_dir_path.is_none
    /\ fit_args.epochs.is_none
    /\ C8_Count("checkpoint") = 10
    /\ C8_Count("next:train") = 20

====
